---- MODULE Spec2Model ----
(***************************************************************************)
(* Model of fg_rule_extractor.parse_fortigate_config: the three regular    *)
(* expressions of the parser evaluated character by character over a       *)
(* configuration text, and the loop that turns their matches into rule     *)
(* records.  A text is a sequence of one-character strings.                *)
(***************************************************************************)
EXTENDS Integers, Sequences, FiniteSets, TLC

VARIABLES src, config_content, pc, policy_block, block_off, pos, spans, rules

vars == <<src, config_content, pc, policy_block, block_off, pos, spans, rules>>

(* ---------------------------------------------------------------------- *)
(* Bounds                                                                  *)
(* ---------------------------------------------------------------------- *)

\* largest number of record blocks written into the policy section
MaxBlocks == 2

(* ---------------------------------------------------------------------- *)
(* Characters and the literals of the three patterns                       *)
(* ---------------------------------------------------------------------- *)

LowerMap ==
    ("A" :> "a") @@ ("B" :> "b") @@ ("C" :> "c") @@ ("D" :> "d") @@
    ("E" :> "e") @@ ("F" :> "f") @@ ("G" :> "g") @@ ("H" :> "h") @@
    ("I" :> "i") @@ ("J" :> "j") @@ ("K" :> "k") @@ ("L" :> "l") @@
    ("M" :> "m") @@ ("N" :> "n") @@ ("O" :> "o") @@ ("P" :> "p") @@
    ("Q" :> "q") @@ ("R" :> "r") @@ ("S" :> "s") @@ ("T" :> "t") @@
    ("U" :> "u") @@ ("V" :> "v") @@ ("W" :> "w") @@ ("X" :> "x") @@
    ("Y" :> "y") @@ ("Z" :> "z")

\* variant: re.IGNORECASE left out, characters compared as written
Lower_exact(c) == c

\* re.IGNORECASE folds both sides of a comparison to one case
Lower(c) == IF c \in DOMAIN LowerMap THEN LowerMap[c] ELSE c

\* \s
IsSpace(c) == c \in {" ", "\n", "\t"}

\* \d
IsDigit(c) == c \in {"0", "1", "2", "3", "4", "5", "6", "7", "8", "9"}

\* ["\']
IsQuote(c) == c \in {"\"", "'"}

lit_config_firewall_policy ==
    <<"c","o","n","f","i","g"," ","f","i","r","e","w","a","l","l"," ",
      "p","o","l","i","c","y">>

lit_end == <<"e","n","d">>

lit_edit == <<"e","d","i","t">>

lit_next == <<"n","e","x","t">>

lit_set == <<"s","e","t">>

lit_name == <<"n","a","m","e">>

\* f"<unnamed-rule-{rule_id}>"
unnamed_rule(rule_id) ==
    <<"<","u","n","n","a","m","e","d","-","r","u","l","e","-">> \o rule_id \o <<">">>

(* ---------------------------------------------------------------------- *)
(* Regular-expression pieces                                               *)
(* ---------------------------------------------------------------------- *)

\* a literal of the pattern matches the text s at index i
MatchLit(s, i, lit, icase) ==
    /\ i >= 1
    /\ i + Len(lit) - 1 <= Len(s)
    /\ \A k \in 1..Len(lit) :
          IF icase THEN Lower(s[i + k - 1]) = Lower(lit[k])
                   ELSE s[i + k - 1] = lit[k]

RECURSIVE SkipSpace(_, _)
\* greedy \s* from index i: the index of the first character that is not
\* white space (Len(s) + 1 when the text ends first)
SkipSpace(s, i) ==
    IF i <= Len(s) /\ IsSpace(s[i]) THEN SkipSpace(s, i + 1) ELSE i

RECURSIVE SkipDigits(_, _)
\* greedy \d* from index i
SkipDigits(s, i) ==
    IF i <= Len(s) /\ IsDigit(s[i]) THEN SkipDigits(s, i + 1) ELSE i

RECURSIVE SkipNonQuote(_, _)
\* greedy [^"\']* from index i
SkipNonQuote(s, i) ==
    IF i <= Len(s) /\ ~IsQuote(s[i]) THEN SkipNonQuote(s, i + 1) ELSE i

\* the least index of a set of indices
Least(S) == CHOOSE x \in S : \A y \in S : x <= y

\* (.*?)\s*lit with re.DOTALL, the group starting at index a: the lazy group
\* grows one character at a time (any character, line ends included) until
\* "\s*lit" matches at its end, so it ends at the first index that works.
\* The result is the index just after the group, or 0 when no end works.
LazyUpTo(s, a, lit, icase) ==
    LET ends == {e \in a..(Len(s) + 1) :
                    MatchLit(s, SkipSpace(s, e), lit, icase)}
    IN  IF ends = {} THEN 0 ELSE Least(ends)

NoMatch ==
    [found |-> FALSE, start |-> 0, stop |-> 0, g1from |-> 0,
     g1 |-> <<>>, g2 |-> <<>>]

\* variant: the terminator made optional, an unclosed section running to
\* the end of the text
PolicyMatchAt_openended(s, i) ==
    IF ~MatchLit(s, i, lit_config_firewall_policy, TRUE) THEN NoMatch
    ELSE LET a == SkipSpace(s, i + Len(lit_config_firewall_policy))
             e == LazyUpTo(s, a, lit_end, TRUE)
         IN  IF e = 0
             THEN [found |-> TRUE, start |-> i, stop |-> Len(s) + 1,
                   g1from |-> a, g1 |-> SubSeq(s, a, Len(s)), g2 |-> <<>>]
             ELSE [found |-> TRUE, start |-> i,
                   stop |-> SkipSpace(s, e) + Len(lit_end),
                   g1from |-> a, g1 |-> SubSeq(s, a, e - 1), g2 |-> <<>>]

\* r'config firewall policy\s*(.*?)\s*end' anchored at index i.  The leading
\* \s* is greedy; giving white space back can only hand it to the lazy
\* group, which changes no decision, so the greedy choice is the match.
PolicyMatchAt(s, i) ==
    IF ~MatchLit(s, i, lit_config_firewall_policy, TRUE) THEN NoMatch
    ELSE LET a == SkipSpace(s, i + Len(lit_config_firewall_policy))
             e == LazyUpTo(s, a, lit_end, TRUE)
         IN  IF e = 0 THEN NoMatch
             ELSE [found |-> TRUE, start |-> i,
                   stop |-> SkipSpace(s, e) + Len(lit_end),
                   g1from |-> a, g1 |-> SubSeq(s, a, e - 1), g2 |-> <<>>]

\* the greatest index of a set of indices
Greatest(S) == CHOOSE x \in S : \A y \in S : x >= y

\* variant: the last occurrence of the section taken instead of the first
policy_pattern_search_last(s) ==
    LET at == {i \in 1..Len(s) : PolicyMatchAt(s, i).found}
    IN  IF at = {} THEN NoMatch ELSE PolicyMatchAt(s, Greatest(at))

\* policy_pattern.search(config_content): the leftmost match
policy_pattern_search(s) ==
    LET at == {i \in 1..Len(s) : PolicyMatchAt(s, i).found}
    IN  IF at = {} THEN NoMatch ELSE PolicyMatchAt(s, Least(at))

RECURSIVE SkipNonSpace(_, _)
\* greedy \S* from index i
SkipNonSpace(s, i) ==
    IF i <= Len(s) /\ ~IsSpace(s[i]) THEN SkipNonSpace(s, i + 1) ELSE i

\* variant: the ID captured as (\S+), any token
RuleMatchAt_anyid(s, i) ==
    IF ~MatchLit(s, i, lit_edit, FALSE) THEN NoMatch
    ELSE LET w == i + Len(lit_edit)
             d == SkipSpace(s, w)
             x == SkipNonSpace(s, d)
             a == SkipSpace(s, x)
             e == LazyUpTo(s, a, lit_next, FALSE)
         IN  IF d = w \/ x = d \/ e = 0 THEN NoMatch
             ELSE [found |-> TRUE, start |-> i,
                   stop |-> SkipSpace(s, e) + Len(lit_next),
                   g1from |-> d, g1 |-> SubSeq(s, d, x - 1),
                   g2 |-> SubSeq(s, a, e - 1)]

\* r'edit\s+(\d+)\s*(.*?)\s*next' anchored at index i, case-sensitive
RuleMatchAt(s, i) ==
    IF ~MatchLit(s, i, lit_edit, FALSE) THEN NoMatch
    ELSE LET w == i + Len(lit_edit)
             d == SkipSpace(s, w)
             x == SkipDigits(s, d)
             a == SkipSpace(s, x)
             e == LazyUpTo(s, a, lit_next, FALSE)
         IN  IF d = w \/ x = d \/ e = 0 THEN NoMatch
             ELSE [found |-> TRUE, start |-> i,
                   stop |-> SkipSpace(s, e) + Len(lit_next),
                   g1from |-> d, g1 |-> SubSeq(s, d, x - 1),
                   g2 |-> SubSeq(s, a, e - 1)]

\* one step of rule_pattern.finditer(policy_block): the leftmost match that
\* starts at index i or later
RuleSearchFrom(s, i) ==
    LET at == {h \in i..Len(s) : RuleMatchAt(s, h).found}
    IN  IF at = {} THEN NoMatch ELSE RuleMatchAt(s, Least(at))

\* r'set\s+name\s+["\']([^"\']*)["\']' anchored at index i, ignoring case
NameMatchAt(s, i) ==
    IF ~MatchLit(s, i, lit_set, TRUE) THEN NoMatch
    ELSE LET w1 == i + Len(lit_set)
             n  == SkipSpace(s, w1)
             w2 == n + Len(lit_name)
             q  == SkipSpace(s, w2)
             r  == SkipNonQuote(s, q + 1)
         IN  IF /\ n > w1
                /\ MatchLit(s, n, lit_name, TRUE)
                /\ q > w2
                /\ q <= Len(s) /\ IsQuote(s[q])
                /\ r <= Len(s) /\ IsQuote(s[r])
             THEN [found |-> TRUE, start |-> i, stop |-> r + 1,
                   g1from |-> q + 1, g1 |-> SubSeq(s, q + 1, r - 1),
                   g2 |-> <<>>]
             ELSE NoMatch

\* name_pattern.search(rule_content): the leftmost match
name_pattern_search(rule_content) ==
    LET at == {i \in 1..Len(rule_content) : NameMatchAt(rule_content, i).found}
    IN  IF at = {} THEN NoMatch ELSE NameMatchAt(rule_content, Least(at))

\* variant: "if name_match.group(1)" in place of "if name_match", an empty
\* name taken for a missing one
rule_record_truthy(rule_match) ==
    LET rule_id == rule_match.g1
        rule_content == rule_match.g2
        name_match == name_pattern_search(rule_content)
    IN  [id |-> rule_id,
         name |-> IF name_match.found /\ name_match.g1 # <<>> THEN name_match.g1
                  ELSE unnamed_rule(rule_id)]

\* variant: the name searched in the whole policy block, not in the
\* content of the record
rule_record_wholeblock(rule_match) ==
    LET rule_id == rule_match.g1
        name_match == name_pattern_search(policy_block)
    IN  [id |-> rule_id,
         name |-> IF name_match.found THEN name_match.g1
                  ELSE unnamed_rule(rule_id)]

\* the body of the for loop: the record appended for one match
rule_record(rule_match) ==
    LET rule_id == rule_match.g1
        rule_content == rule_match.g2
        name_match == name_pattern_search(rule_content)
    IN  [id |-> rule_id,
         name |-> IF name_match.found THEN name_match.g1
                  ELSE unnamed_rule(rule_id)]

RECURSIVE finditer_rules(_, _)
\* the records of every match of finditer, from index i on
finditer_rules(s, i) ==
    LET m == RuleSearchFrom(s, i)
    IN  IF ~m.found THEN <<>>
        ELSE <<rule_record(m)>> \o finditer_rules(s, m.stop)

\* the whole function, as one value
parse_fortigate_config(content) ==
    LET policy_match == policy_pattern_search(content)
    IN  IF ~policy_match.found THEN <<>>
        ELSE finditer_rules(policy_match.g1, 1)

(* ---------------------------------------------------------------------- *)
(* Configuration texts given to the parser                                 *)
(* ---------------------------------------------------------------------- *)

\* An input is written as a sequence of items (section openers, record
\* blocks, terminators) and rendered to characters; the parser only ever
\* sees the characters.

UpperMap == [c \in {LowerMap[u] : u \in DOMAIN LowerMap} |->
                CHOOSE u \in DOMAIN LowerMap : LowerMap[u] = c]

\* the other letter case of a letter, any other character unchanged
Toggle(c) ==
    IF c \in DOMAIN LowerMap THEN LowerMap[c]
    ELSE IF c \in DOMAIN UpperMap THEN UpperMap[c] ELSE c

ToggleSeq(s) == [k \in 1..Len(s) |-> Toggle(s[k])]

Keyword(kind, text) ==
    [kind |-> kind, text |-> text, op |-> <<>>, id |-> <<>>, named |-> FALSE,
     kw |-> <<>>, q |-> "", val |-> <<>>, fill |-> <<>>, cl |-> <<>>]

Block(op, id, named, q, val, fill, cl) ==
    [kind |-> "block", text |-> <<>>, op |-> op, id |-> id, named |-> named,
     kw |-> lit_set \o <<" ">> \o lit_name, q |-> q, val |-> val,
     fill |-> fill, cl |-> cl]

Opener == Keyword("opener", lit_config_firewall_policy)

OtherOpener ==
    Keyword("other", <<"c","o","n","f","i","g"," ","r","o","u","t","e","r",
                       " ","s","t","a","t","i","c">>)

Terminator == Keyword("term", lit_end)

fill_action == <<"s","e","t"," ","a","c","t","i","o","n"," ","d","e","n","y">>

fill_dstaddr == <<"s","e","t"," ","d","s","t","a","d","d","r"," ","v","e","n","d","o","r">>

\* the record blocks a policy section is written from
Blocks ==
    { Block(lit_edit, <<"1","0">>, TRUE, "\"", <<"A"," ","b","#">>, <<>>, lit_next),
      Block(lit_edit, <<"2">>, TRUE, "'", <<"B">>, <<>>, lit_next),
      Block(lit_edit, <<"1">>, FALSE, "", <<>>, fill_action, lit_next),
      Block(lit_edit, <<"1">>, TRUE, "\"", <<>>, <<>>, lit_next),
      Block(ToggleSeq(lit_edit), <<"4">>, TRUE, "\"", <<"C">>, <<>>, ToggleSeq(lit_next)),
      Block(lit_edit, <<"x">>, TRUE, "\"", <<"D">>, <<>>, lit_next),
      Block(lit_edit, <<>>, FALSE, "", <<>>, fill_action, lit_next),
      Block(lit_edit, <<"5">>, TRUE, "\"", <<"i","t","'","s">>, <<>>, lit_next),
      Block(lit_edit, <<"6">>, TRUE, "\"", <<"B","e","n","d">>, <<>>, lit_next),
      Block(lit_edit, <<"7">>, TRUE, "\"", <<"n","e","x","t","A">>, <<>>, lit_next),
      Block(lit_edit, <<"8">>, FALSE, "", <<>>, fill_dstaddr, lit_next) }

\* a record block of some other section, before the policy section
PreBlock == Block(lit_edit, <<"9">>, TRUE, "\"", <<"P">>, <<>>, lit_next)

\* the record block of a second policy section
PostBlock == Block(lit_edit, <<"3">>, TRUE, "\"", <<"Z">>, <<>>, lit_next)

BlockSeqs == UNION { [1..n -> Blocks] : n \in 0..MaxBlocks }

BlockBody(it) ==
    IF it.named THEN it.kw \o <<" ", it.q>> \o it.val \o <<it.q>> ELSE it.fill

RenderItem(it) ==
    IF it.kind # "block" THEN it.text
    ELSE it.op \o (IF it.id = <<>> THEN <<>> ELSE <<" ">> \o it.id)
         \o <<"\n", " ">> \o BlockBody(it) \o <<"\n">> \o it.cl

RECURSIVE Render(_)
\* every item on lines of its own
Render(items) ==
    IF items = <<>> THEN <<>>
    ELSE RenderItem(Head(items)) \o <<"\n">> \o Render(Tail(items))

\* the items of one class written in the other letter case
FlipCase(items, class) ==
    [j \in 1..Len(items) |->
        IF class = "setname" /\ items[j].kind = "block"
        THEN [items[j] EXCEPT !.kw = ToggleSeq(@)]
        ELSE IF class # "setname" /\ items[j].kind = class
        THEN [items[j] EXCEPT !.text = ToggleSeq(@)]
        ELSE items[j]]

\* the text: an optional foreign section, the policy section (its opener,
\* blocks and terminator each optional), an optional second policy section
Document(pre, opener, upper, bs, term, post) ==
    LET body == (IF opener = "policy" THEN <<Opener>>
                 ELSE IF opener = "other" THEN <<OtherOpener>> ELSE <<>>)
                \o bs \o (IF term THEN <<Terminator>> ELSE <<>>)
        main == IF upper
                THEN FlipCase(FlipCase(FlipCase(body, "opener"), "term"), "setname")
                ELSE body
    IN  (IF pre THEN <<OtherOpener, PreBlock, Terminator>> ELSE <<>>)
        \o main
        \o (IF post THEN <<Opener, PostBlock, Terminator>> ELSE <<>>)

\* the shapes of text tried: <<pre, opener, upper, term, post>>
Shapes ==
    { <<FALSE, "policy", FALSE, TRUE,  FALSE>>,
      <<FALSE, "policy", TRUE,  TRUE,  FALSE>>,
      <<TRUE,  "policy", FALSE, TRUE,  FALSE>>,
      <<FALSE, "policy", FALSE, TRUE,  TRUE>>,
      <<TRUE,  "policy", TRUE,  TRUE,  TRUE>>,
      <<FALSE, "policy", FALSE, FALSE, FALSE>>,
      <<TRUE,  "policy", FALSE, FALSE, FALSE>>,
      <<FALSE, "policy", FALSE, FALSE, TRUE>>,
      <<FALSE, "other",  FALSE, TRUE,  FALSE>>,
      <<FALSE, "none",   FALSE, FALSE, FALSE>>,
      <<FALSE, "none",   FALSE, TRUE,  TRUE>> }

(* ---------------------------------------------------------------------- *)
(* parse_fortigate_config, step by step                                    *)
(* ---------------------------------------------------------------------- *)

Init ==
    /\ src = <<>>
    /\ config_content = <<>>
    /\ pc = "idle"
    /\ policy_block = <<>>
    /\ block_off = 0
    /\ pos = 1
    /\ spans = <<>>
    /\ rules = <<>>

\* the call: config_content is bound, rules = []
Call ==
    /\ pc = "idle"
    /\ \E sh \in Shapes, bs \in BlockSeqs :
          /\ src' = Document(sh[1], sh[2], sh[3], bs, sh[4], sh[5])
          /\ config_content' = Render(src')
    /\ pc' = "search"
    /\ rules' = <<>>
    /\ UNCHANGED <<policy_block, block_off, pos, spans>>

\* variant: without a policy match the whole text is scanned for records
ReturnNoPolicy_fallthrough ==
    /\ pc = "search"
    /\ ~policy_pattern_search(config_content).found
    /\ policy_block' = config_content
    /\ block_off' = 1
    /\ pos' = 1
    /\ pc' = "loop"
    /\ UNCHANGED <<src, config_content, spans, rules>>

\* policy_match is None: the empty list is returned
ReturnNoPolicy ==
    /\ pc = "search"
    /\ ~policy_pattern_search(config_content).found
    /\ pc' = "done"
    /\ UNCHANGED <<src, config_content, policy_block, block_off, pos, spans, rules>>

\* policy_block = policy_match.group(1)
TakePolicyBlock ==
    /\ pc = "search"
    /\ LET policy_match == policy_pattern_search(config_content)
       IN  /\ policy_match.found
           /\ policy_block' = policy_match.g1
           /\ block_off' = policy_match.g1from
    /\ pos' = 1
    /\ pc' = "loop"
    /\ UNCHANGED <<src, config_content, spans, rules>>

\* variant: records kept by ID, a second record with a known ID dropped
RuleIteration_byid ==
    /\ pc = "loop"
    /\ LET rule_match == RuleSearchFrom(policy_block, pos)
           known == \E k \in 1..Len(rules) : rules[k].id = rule_match.g1
       IN  /\ rule_match.found
           /\ rules' = IF known THEN rules
                       ELSE Append(rules, rule_record(rule_match))
           /\ spans' = IF known THEN spans
                       ELSE Append(spans,
                               [start |-> block_off + rule_match.start - 1,
                                stop |-> block_off + rule_match.stop - 1,
                                content |-> rule_match.g2])
           /\ pos' = rule_match.stop
    /\ UNCHANGED <<src, config_content, pc, policy_block, block_off>>

\* one iteration of the for loop over rule_pattern.finditer(policy_block)
RuleIteration ==
    /\ pc = "loop"
    /\ LET rule_match == RuleSearchFrom(policy_block, pos)
       IN  /\ rule_match.found
           /\ rules' = Append(rules, rule_record(rule_match))
           /\ spans' = Append(spans,
                 [start |-> block_off + rule_match.start - 1,
                  stop |-> block_off + rule_match.stop - 1,
                  content |-> rule_match.g2])
           /\ pos' = rule_match.stop
    /\ UNCHANGED <<src, config_content, pc, policy_block, block_off>>

\* finditer is exhausted: return rules
ReturnRules ==
    /\ pc = "loop"
    /\ ~RuleSearchFrom(policy_block, pos).found
    /\ pc' = "done"
    /\ UNCHANGED <<src, config_content, policy_block, block_off, pos, spans, rules>>

Next ==
    \/ Call
    \/ ReturnNoPolicy
    \/ TakePolicyBlock
    \/ RuleIteration
    \/ ReturnRules

Spec == Init /\ [][Next]_vars

\* the step-by-step run returns what the function returns
ResultIsFunctionValue ==
    pc = "done" => rules = parse_fortigate_config(config_content)

(* ---------------------------------------------------------------------- *)
(* Reading a result against the text it came from                          *)
(* ---------------------------------------------------------------------- *)

Returned == pc = "done"

\* index in config_content of the first character of item j
ItemStart(j) == Len(Render(SubSeq(src, 1, j - 1))) + 1

\* index just after the last character of item j
ItemStop(j) == ItemStart(j) + Len(RenderItem(src[j]))

BlockItems == {j \in 1..Len(src) : src[j].kind = "block"}

\* the block whose "edit" the match of record k starts at
HasOwner(k) == \E j \in BlockItems : spans[k].start = ItemStart(j)

Owner(k) == CHOOSE j \in BlockItems : spans[k].start = ItemStart(j)

AllDigits(id) == id # <<>> /\ \A n \in 1..Len(id) : IsDigit(id[n])

\* edit <digits> ... next, keywords in lower case
WellFormed(b) == b.op = lit_edit /\ AllDigits(b.id) /\ b.cl = lit_next

\* a lower-case record opener without a decimal ID
Malformed(b) == b.kind = "block" /\ b.op = lit_edit /\ ~AllDigits(b.id)

OpenerItems == {j \in 1..Len(src) : src[j].kind = "opener"}

FirstOpener == CHOOSE j \in OpenerItems : \A i \in OpenerItems : j <= i

\* the standalone terminators after the first opener
TermsAfter ==
    {j \in 1..Len(src) : src[j].kind = "term" /\ j > FirstOpener}

\* the first policy section is there and is closed by a standalone end
SectionClosed == OpenerItems # {} /\ TermsAfter # {}

SectionEnd == CHOOSE j \in TermsAfter : \A i \in TermsAfter : j <= i

\* the record blocks written inside the first policy section
SectionBlocks ==
    IF SectionClosed
    THEN {j \in BlockItems : FirstOpener < j /\ j < SectionEnd}
    ELSE {}

\* the text contains the section opener, in any letter case
HasOpenerText ==
    \E i \in 1..Len(config_content) :
        MatchLit(config_content, i, lit_config_firewall_policy, TRUE)

FirstOpenerText ==
    CHOOSE i \in 1..Len(config_content) :
        /\ MatchLit(config_content, i, lit_config_firewall_policy, TRUE)
        /\ \A h \in 1..(i - 1) :
              ~MatchLit(config_content, h, lit_config_firewall_policy, TRUE)

\* the letters e, n, d occur, in any case, somewhere after the first opener
EndLettersAfterOpener ==
    \E i \in (FirstOpenerText + Len(lit_config_firewall_policy))..Len(config_content) :
        MatchLit(config_content, i, lit_end, TRUE)

\* a quoted "set name" assignment occurs somewhere in the text body
QuotedAssignIn(body) ==
    \E i \in 1..Len(body) :
        /\ MatchLit(body, i, lit_set, TRUE)
        /\ \E n \in (i + 4)..Len(body) :
              /\ \A h \in (i + 3)..(n - 1) : IsSpace(body[h])
              /\ MatchLit(body, n, lit_name, TRUE)
              /\ \E q \in (n + 5)..Len(body) :
                    /\ \A h \in (n + 4)..(q - 1) : IsSpace(body[h])
                    /\ IsQuote(body[q])
                    /\ \E r \in (q + 1)..Len(body) :
                          /\ IsQuote(body[r])
                          /\ \A h \in (q + 1)..(r - 1) : ~IsQuote(body[h])

\* the text name stands between two quote characters of the text body
QuotedIn(body, name) ==
    \E q \in 1..Len(body) :
        /\ IsQuote(body[q])
        /\ q + Len(name) + 1 <= Len(body)
        /\ IsQuote(body[q + Len(name) + 1])
        /\ SubSeq(body, q + 1, q + Len(name)) = name

(* ---------------------------------------------------------------------- *)
(* Claims                                                                  *)
(* ---------------------------------------------------------------------- *)

\* C1: every record block of the closed policy section that has a quoted
\* set name field is returned, and its name is exactly the characters
\* between the quotes (other-kind quotes, "end", "next" included).
C1_NameIsQuotedContent ==
    (Returned /\ SectionClosed) =>
        \A j \in SectionBlocks :
            (WellFormed(src[j]) /\ src[j].named) =>
                \E k \in 1..Len(rules) :
                    /\ HasOwner(k) /\ Owner(k) = j
                    /\ rules[k].id = src[j].id
                    /\ rules[k].name = src[j].val

\* C2: the scanned section runs from the end of the first opener to the
\* next standalone end (letters "end" inside a longer word or a quoted value
\* do not close it), so every complete block before that end yields a record.
C2_SectionRunsToStandaloneEnd ==
    (Returned /\ SectionClosed) =>
        /\ block_off = SkipSpace(config_content, ItemStop(FirstOpener))
        /\ SkipSpace(config_content, block_off + Len(policy_block))
              = ItemStart(SectionEnd)
        /\ \A j \in SectionBlocks :
              WellFormed(src[j]) =>
                  \E k \in 1..Len(rules) : HasOwner(k) /\ Owner(k) = j

\* C3: with the opener occurring more than once, every returned record has
\* its edit opener inside the first occurrence's section: after the first
\* opener and before that section's terminator.
C3_OnlyFirstSection ==
    SectionClosed =>
        \A k \in 1..Len(spans) :
            /\ spans[k].start >= ItemStop(FirstOpener)
            /\ spans[k].start < ItemStart(SectionEnd)

C3_Witness ==
    /\ Returned /\ SectionClosed
    /\ Cardinality(OpenerItems) > 1
    /\ \E j \in BlockItems : j > SectionEnd /\ WellFormed(src[j])
    /\ Len(rules) >= 1

\* C4: a matched record block whose body has no set name field gets the
\* name <unnamed-rule-{id}> built from its own ID, never a name of another
\* block.
C4_UnnamedPlaceholder ==
    /\ Len(spans) = Len(rules)
    /\ \A k \in 1..Len(rules) :
          (HasOwner(k) /\ ~src[Owner(k)].named) =>
              /\ rules[k].id = src[Owner(k)].id
              /\ rules[k].name =
                    <<"<","u","n","n","a","m","e","d","-","r","u","l","e","-">>
                    \o src[Owner(k)].id \o <<">">>

C4_Witness ==
    /\ Returned
    /\ \E k \in 1..Len(rules) :
          /\ HasOwner(k) /\ ~src[Owner(k)].named
          /\ \E j \in SectionBlocks : j # Owner(k) /\ src[j].named

\* C5: records come in the left-to-right order of their edit openers, not
\* sorted by ID, one record per matched block: every complete block inside
\* the scanned section has exactly one record, duplicates of an ID included.
C5_DocumentOrderOnePerBlock ==
    /\ Len(spans) = Len(rules)
    /\ \A k \in 1..Len(rules) :
          /\ HasOwner(k)
          /\ rules[k].id = src[Owner(k)].id
          /\ \A l \in 1..Len(rules) :
                k < l => spans[k].start < spans[l].start
    /\ (Returned /\ block_off > 0) =>
          \A j \in BlockItems :
              (/\ WellFormed(src[j])
               /\ ItemStart(j) >= block_off
               /\ ItemStop(j) <= block_off + Len(policy_block)) =>
                  Cardinality({k \in 1..Len(rules) :
                                  spans[k].start = ItemStart(j)}) = 1

C5_Witness ==
    /\ Returned
    /\ Len(rules) = 2
    /\ rules[1].id = <<"1","0">>
    /\ rules[2].id = <<"2">>

C7_NoOpenerNoRules ==
    (Returned /\ ~HasOpenerText) => rules = <<>>

C7_Witness ==
    /\ Returned
    /\ ~HasOpenerText
    /\ \E j \in BlockItems : WellFormed(src[j])
    /\ \E j \in 1..Len(src) : src[j].kind = "other"

\* C8: set name "" gives the empty name, not the placeholder; the
\* placeholder is produced exactly when the record body holds no quoted
\* set name assignment: without one the name is the placeholder, with one
\* the name is a quoted value of the body and differs from the placeholder.
C8_EmptyNameKept ==
    /\ Len(spans) = Len(rules)
    /\ \A k \in 1..Len(rules) :
          LET placeholder ==
                  <<"<","u","n","n","a","m","e","d","-","r","u","l","e","-">>
                  \o rules[k].id \o <<">">>
          IN  /\ (HasOwner(k) /\ src[Owner(k)].named
                                /\ src[Owner(k)].val = <<>>)
                    => rules[k].name = <<>>
              /\ ~QuotedAssignIn(spans[k].content)
                    => rules[k].name = placeholder
              /\ QuotedAssignIn(spans[k].content)
                    => /\ QuotedIn(spans[k].content, rules[k].name)
                       /\ rules[k].name # placeholder

C8_Witness ==
    /\ Returned
    /\ \E k \in 1..Len(rules) :
          /\ HasOwner(k)
          /\ src[Owner(k)].named /\ src[Owner(k)].val = <<>>
          /\ rules[k].name = <<>>

\* C9: a record opener without a decimal ID gives no record and changes
\* nothing else: the result is the result of the same text without the
\* malformed block.
C9_MalformedOpenerSkipped ==
    Returned =>
        /\ rules = parse_fortigate_config(
                      Render(SelectSeq(src, LAMBDA it : ~Malformed(it))))
        /\ \A k \in 1..Len(rules) : HasOwner(k) /\ ~Malformed(src[Owner(k)])

C9_Witness ==
    /\ Returned
    /\ \E j \in SectionBlocks :
          /\ Malformed(src[j])
          /\ \E k \in 1..Len(rules) : HasOwner(k) /\ Owner(k) > j

\* C10: with the opener present but the letters "end" (in any case) nowhere
\* after it, the result is the empty list even when complete record blocks
\* follow the opener.
C10_UnclosedSectionNoRules ==
    (Returned /\ HasOpenerText /\ ~EndLettersAfterOpener) => rules = <<>>

C10_Witness ==
    /\ Returned
    /\ HasOpenerText /\ ~EndLettersAfterOpener
    /\ OpenerItems # {}
    /\ \E j \in BlockItems : j > FirstOpener /\ WellFormed(src[j])
    /\ rules = <<>>

====
